---- MODULE Spec2Model ----
(***************************************************************************)
(* A model of amo_crm_api: the generic client AmoCRMApi (amo_crm.py), its  *)
(* lazy page generator, its filter merge, its type resolution, and the     *)
(* Lead / Contact schemas' alias and embedded-mirror rules.                 *)
(***************************************************************************)
EXTENDS Integers, Sequences, FiniteSets, TLC

VARIABLES
    orig_class,   \* the client's __orig_class__ type arguments, or Absent
    cache,        \* the two cached_property slots (_lead_model, _contact_model)
    script,       \* the server's list data: page number -> page size or Fail
    heap,         \* the parameter dicts alive, addressed by reference (index)
    gen,          \* the generator objects returned by the list operations
    running,      \* the generator a consumer pull is executing, or Nobody
    requests,     \* per issuer, the requests it handed to the Requester
    last,         \* the latest direct call: operation, arguments, outcome
    input         \* the argument drawn for a pure function

vars == <<orig_class, cache, script, heap, gen, running, requests, last, input>>

----------------------------------------------------------------------------
(* Bounds of the model *)

MaxPage == 3
MaxPageSize == 2
PairMaxPage == 2
PairMaxPageSize == 2
MaxFilters == 3
MaxCalls == 2

(* Program constants *)

DefaultListLimit == 50
DefaultLimit == 250
FirstPage == 1
StatusOk == 200

----------------------------------------------------------------------------
(* Values *)

NoTypeArgs == [present |-> FALSE, args |-> << >>]
TypeArgs(a) == [present |-> TRUE, args |-> a]
Unset == "<unset>"
Null == "<None>"
Fail == [ok |-> FALSE, size |-> 0]
Page(k) == [ok |-> TRUE, size |-> k]
Nobody == "<nobody>"
Omitted == << >>
NoneRef == 0

G1 == "g1"
G2 == "g2"
Gens == {G1, G2}
Direct == "call"

EmptyDict == [k \in {} |-> 0]

dict_update(d, e) ==
    [k \in DOMAIN d \cup DOMAIN e |-> IF k \in DOMAIN e THEN e[k] ELSE d[k]]

dict_get(d, k, default) == IF k \in DOMAIN d THEN d[k] ELSE default

dict_set(d, k, v) == [x \in DOMAIN d \cup {k} |-> IF x = k THEN v ELSE d[x]]

----------------------------------------------------------------------------
(* Type resolution: AmoCRMApi._lead_model / _contact_model *)

LeadBase == "LeadSchema"
ContactBase == "ContactSchema"

IsSubclass(t, base) ==
    \/ t = base
    \/ t = "MyLead" /\ base = LeadBase
    \/ t = "MyContact" /\ base = ContactBase

ClientConfigs ==
    { NoTypeArgs,
      TypeArgs(<<"MyLead", "MyContact">>),
      TypeArgs(<<"MyContact", "MyLead">>),
      TypeArgs(<<LeadBase, ContactBase>>),
      TypeArgs(<<"MyLead", ContactBase>>) }

RECURSIVE FirstSubclass(_, _, _)
FirstSubclass(args, base, i) ==
    IF i > Len(args) THEN base
    ELSE IF IsSubclass(args[i], base) THEN args[i]
    ELSE FirstSubclass(args, base, i + 1)

\* get_args(self.__orig_class__) raises AttributeError on an instance that was
\* constructed without type arguments: it has no __orig_class__ attribute.
resolve_model(oc, base) ==
    IF ~oc.present
    THEN [raised |-> TRUE, error |-> "AttributeError", type |-> Unset]
    ELSE [raised |-> FALSE, error |-> Unset, type |-> FirstSubclass(oc.args, base, 1)]

\* cached_property: the first successful evaluation is stored and reused.
cached_model(c, slot, oc, base) ==
    IF c[slot] # Unset
    THEN [raised |-> FALSE, error |-> Unset, type |-> c[slot]]
    ELSE resolve_model(oc, base)

lead_model(c, oc) == cached_model(c, "lead", oc, LeadBase)

contact_model(c, oc) == cached_model(c, "contact", oc, ContactBase)

cache_after(c, slot, m) == IF m.raised THEN c ELSE [c EXCEPT ![slot] = m.type]

----------------------------------------------------------------------------
(* Record schemas: LeadSchema (schemas/leads.py), ContactScheme            *)
(* (schemes/contacts.py).  A JSON object is a function from the keys it    *)
(* carries to their values; an Optional sub-model is a sequence of length  *)
(* at most one; ids and custom-field lists are opaque strings.             *)

CfEmpty == "[]"
None1 == << >>

RECURSIVE alias_lookup(_, _, _)
\* pydantic AliasChoices: the first name of the declared order the input carries.
alias_lookup(raw, names, i) ==
    IF i > Len(names) THEN 0
    ELSE IF names[i] \in DOMAIN raw THEN i
    ELSE alias_lookup(raw, names, i + 1)

created_by_names == <<"created_by", "created_user_id">>
updated_by_names == <<"updated_by", "modified_user_id">>
custom_fields_values_names == <<"custom_fields", "custom_fields_values">>
contact_leads_names == <<"leads", "linked_leads_id">>

LeadSchemaFields ==
    [ id |-> [names |-> <<"id">>, default |-> Null, exclude |-> FALSE],
      created_by |-> [names |-> created_by_names, default |-> Null, exclude |-> TRUE],
      updated_by |-> [names |-> updated_by_names, default |-> Null, exclude |-> TRUE],
      custom_fields_values |->
          [names |-> custom_fields_values_names, default |-> Null, exclude |-> FALSE],
      embedded |-> [names |-> <<"_embedded">>, default |-> None1, exclude |-> FALSE],
      contacts |-> [names |-> <<"contacts">>, default |-> << >>, exclude |-> TRUE] ]

ContactSchemeFields ==
    [ id |-> [names |-> <<"id">>, default |-> Null, exclude |-> FALSE],
      created_by |-> [names |-> created_by_names, default |-> Null, exclude |-> TRUE],
      updated_by |-> [names |-> updated_by_names, default |-> Null, exclude |-> TRUE],
      custom_fields_values |->
          [names |-> custom_fields_values_names, default |-> CfEmpty, exclude |-> FALSE],
      embedded |-> [names |-> <<"_embedded">>, default |-> None1, exclude |-> FALSE],
      leads |-> [names |-> contact_leads_names, default |-> << >>, exclude |-> TRUE] ]

LeadEmbeddedRequired == {"tags", "companies", "contacts"}
ContactEmbeddedRequired == {"tags", "leads", "companies"}

\* The value a field takes from the input: the first alias present, else the default.
field_value(raw, f) ==
    LET i == alias_lookup(raw, f.names, 1)
    IN  IF i = 0 THEN f.default
        ELSE IF f.names = <<"_embedded">> THEN <<raw[f.names[i]]>>
        ELSE raw[f.names[i]]

\* Field validation proper: an embedded object lacking a required key is rejected.
fields_valid(raw, required) ==
    "_embedded" \in DOMAIN raw => required \subseteq DOMAIN raw["_embedded"]

validate_fields(table, raw) ==
    [ values |-> [k \in DOMAIN table |-> field_value(raw, table[k])],
      fields_set |-> {k \in DOMAIN table : alias_lookup(raw, table[k].names, 1) # 0} ]

\* Mutant: the embedded relation copied whenever embedded is present.
post_init_overwrite(inst, rel) ==
    IF inst.values["embedded"] # None1
    THEN [ values |-> [inst.values EXCEPT ![rel] = inst.values["embedded"][1][rel]],
           fields_set |-> inst.fields_set \cup {rel} ]
    ELSE inst

\* model_post_init: mirror a present, non-empty embedded relation into the
\* convenience field (assignment marks the field as set).
post_init_mirror(inst, rel) ==
    IF inst.values["embedded"] # None1 /\ inst.values["embedded"][1][rel] # << >>
    THEN [ values |-> [inst.values EXCEPT ![rel] = inst.values["embedded"][1][rel]],
           fields_set |-> inst.fields_set \cup {rel} ]
    ELSE inst

LeadSchema_post_init(inst) == post_init_mirror(inst, "contacts")

ContactScheme_post_init(inst) == post_init_mirror(inst, "leads")

\* model_validate_json of a body: [json |-> is it JSON at all, obj |-> the object].
LeadSchema_validate(T, body) ==
    IF ~body.json \/ body.array \/ ~fields_valid(body.obj, LeadEmbeddedRequired)
    THEN [raised |-> TRUE, error |-> "ValidationError"]
    ELSE [raised |-> FALSE, type |-> T,
          inst |-> LeadSchema_post_init(validate_fields(LeadSchemaFields, body.obj))]

ContactScheme_validate(T, body) ==
    IF ~body.json \/ body.array \/ ~fields_valid(body.obj, ContactEmbeddedRequired)
    THEN [raised |-> TRUE, error |-> "ValidationError"]
    ELSE [raised |-> FALSE, type |-> T,
          inst |-> ContactScheme_post_init(validate_fields(ContactSchemeFields, body.obj))]

----------------------------------------------------------------------------
(* Filters: a Filter object is known by the parameter mapping it renders.  *)

FilterObjects == {"by_name", "by_name_and_id", "by_status", "by_page"}

as_params(f) ==
    CASE f = "by_name" -> ("filter[name]" :> "1")
      [] f = "by_name_and_id" -> ("filter[name]" :> "2" @@ "filter[id]" :> "3")
      [] f = "by_status" -> ("filter[status]" :> "4" @@ "filter[id]" :> "5")
      [] f = "by_page" -> ("page" :> 2)

RECURSIVE params_update_first_wins(_, _, _)
\* Mutant: a key already present is kept (setdefault instead of update).
params_update_first_wins(params, filters, i) ==
    IF i > Len(filters) THEN params
    ELSE params_update_first_wins(dict_update(as_params(filters[i]), params), filters, i + 1)

RECURSIVE params_update_from(_, _, _)
\* The loop of _filters_to_params from position i on: params.update(...) in order.
params_update_from(params, filters, i) ==
    IF i > Len(filters) THEN params
    ELSE params_update_from(dict_update(params, as_params(filters[i])), filters, i + 1)

filters_to_params(filters) == params_update_from(EmptyDict, filters, 1)

----------------------------------------------------------------------------
(* The Requester as the list endpoints see it: page p of any list path     *)
(* holds script[p] records, or the request fails (non-success status).     *)

Succeeds(page) == page \in DOMAIN script /\ script[page].ok

Respond(page) ==
    IF Succeeds(page) THEN [status_code |-> StatusOk, size |-> script[page].size]
    ELSE [status_code |-> 404, size |-> 0]

\* ListModelSchema[object_type].model_validate_json(content).embedded.objects
page_items(object_type, path, page, size) ==
    [i \in 1..size |-> [type |-> object_type, path |-> path, page |-> page, index |-> i]]

----------------------------------------------------------------------------
(* Generator objects and the parameter heap *)

NoGen ==
    [ pc |-> "none", op |-> Unset, filters |-> << >>, limit_arg |-> Omitted,
      object_type |-> Unset, path |-> << >>, params |-> NoneRef,
      item_list |-> << >>, idx |-> 0, yielded |-> << >> ]

\* Mutant: one dict object reused by every call (a mutable default).
shared_ref(h) == 1

\* A dict literal / dict() evaluates to a new object: a reference no one holds.
new_ref(h) == Len(h) + 1

heap_put(h, r, d) == IF r > Len(h) THEN Append(h, d) ELSE [h EXCEPT ![r] = d]

\* the limit argument: << >> when the caller omits it, <<n>> when given
limit_or_default(limit) == IF limit = Omitted THEN DefaultListLimit ELSE limit[1]

\* params = {"with": ..., "limit": limit, "page": 1}; params.update(filters' params)
list_params(with, limit, filters) ==
    dict_update(
        ("with" :> with @@ "limit" :> limit_or_default(limit) @@ "page" :> FirstPage),
        filters_to_params(filters))

NoCall == [op |-> Unset]

\* Calling a generator function runs none of its body: the object is created
\* suspended before line 224.
created(op, filters, limit, object_type, path, ref) ==
    [ NoGen EXCEPT !.pc = "start", !.op = op, !.filters = filters,
                   !.limit_arg = limit, !.object_type = object_type,
                   !.path = path, !.params = ref ]

get_lead_list(g, filters, limit) ==
    /\ running = Nobody
    /\ gen[g].pc = "none"
    /\ LET m == lead_model(cache, orig_class)
           r == new_ref(heap)
       IN  IF m.raised
           THEN /\ last' = [op |-> "get_lead_list", raised |-> TRUE, error |-> m.error]
                /\ UNCHANGED <<cache, heap, gen>>
           ELSE /\ cache' = cache_after(cache, "lead", m)
                /\ heap' = heap_put(heap, r, list_params("contacts,loss_reason", limit, filters))
                /\ gen' = [gen EXCEPT ![g] =
                              created("get_lead_list", filters, limit, m.type, <<"/leads">>, r)]
                /\ last' = [op |-> "get_lead_list", raised |-> FALSE, gen |-> g]
    /\ UNCHANGED <<orig_class, script, running, requests, input>>

get_contact_list(g, filters, limit) ==
    /\ running = Nobody
    /\ gen[g].pc = "none"
    /\ LET m == contact_model(cache, orig_class)
           r == new_ref(heap)
       IN  IF m.raised
           THEN /\ last' = [op |-> "get_contact_list", raised |-> TRUE, error |-> m.error]
                /\ UNCHANGED <<cache, heap, gen>>
           ELSE /\ cache' = cache_after(cache, "contact", m)
                /\ heap' = heap_put(heap, r, list_params("leads", limit, filters))
                /\ gen' = [gen EXCEPT ![g] =
                              created("get_contact_list", filters, limit, m.type, <<"/contacts">>, r)]
                /\ last' = [op |-> "get_contact_list", raised |-> FALSE, gen |-> g]
    /\ UNCHANGED <<orig_class, script, running, requests, input>>

\* get_users / get_custom_field_list / get_lead_tags pass no params at all.
enumeration(g, op, object_type, path) ==
    /\ running = Nobody
    /\ gen[g].pc = "none"
    /\ gen' = [gen EXCEPT ![g] = created(op, << >>, Omitted, object_type, path, NoneRef)]
    /\ last' = [op |-> op, raised |-> FALSE, gen |-> g]
    /\ UNCHANGED <<orig_class, cache, script, heap, running, requests, input>>

get_users(g) == enumeration(g, "get_users", "UserSchema", <<"/users">>)

get_custom_field_list(g) ==
    enumeration(g, "get_custom_field_list", "CustomFieldSchema", <<"/leads/custom_fields">>)

get_lead_tags(g) == enumeration(g, "get_lead_tags", "TagSchema", <<"/leads/tags">>)

----------------------------------------------------------------------------
(* _objects_list_generator, one step per stretch of code between the       *)
(* points where control can rest: the consumer's next() resumes it, and it *)
(* runs until it yields or returns.                                        *)

\* lines 224-226 on the first next(): default the dict, the limit and the page.
started_params(h, ref) ==
    LET d == IF ref = NoneRef \/ DOMAIN h[ref] = {} THEN EmptyDict ELSE h[ref]
        l == dict_set(d, "limit", dict_get(d, "limit", DefaultLimit))
    IN  dict_set(l, "page", dict_get(l, "page", FirstPage))

started_ref(h, ref) ==
    IF ref = NoneRef \/ DOMAIN h[ref] = {} THEN new_ref(h) ELSE ref

\* Mutant: an empty page taken for the end of the data.
terminates_on_empty(response) == response.status_code # StatusOk \/ response.size = 0

\* if response.status_code != 200: break
terminates(response) == response.status_code # StatusOk

\* Mutant: the next page fetched one record early.
page_exhausted_early(items, idx) == idx + 1 >= Len(items)

\* the for loop over item_list is exhausted
page_exhausted(items, idx) == idx = Len(items)

\* Mutant: a page skipped.
next_page_skips(page) == page + 2

next_page(page) == page + 1

\* next(g): resume the generator (from its start, or after the yield).
Pull(g) ==
    /\ running = Nobody
    /\ gen[g].pc \in {"start", "suspended"}
    /\ running' = g
    /\ IF gen[g].pc = "start"
       THEN LET r == started_ref(heap, gen[g].params)
            IN  /\ heap' = heap_put(heap, r, started_params(heap, gen[g].params))
                /\ gen' = [gen EXCEPT ![g].pc = "request", ![g].params = r]
       ELSE /\ gen' = [gen EXCEPT ![g].pc = "iter"]
            /\ UNCHANGED heap
    /\ UNCHANGED <<orig_class, cache, script, requests, last, input>>

\* response = self.request("GET", path, params); break on non-success, else parse.
GenRequest(g) ==
    /\ running = g
    /\ gen[g].pc = "request"
    /\ LET params == heap[gen[g].params]
           response == Respond(params["page"])
       IN  /\ requests' = [requests EXCEPT ![g] = Append(@,
                    [ method |-> "GET", path |-> gen[g].path, params |-> params,
                      status_code |-> response.status_code, size |-> response.size ])]
           /\ IF terminates(response)
              THEN /\ gen' = [gen EXCEPT ![g].pc = "done"]
                   /\ running' = Nobody
              ELSE /\ gen' = [gen EXCEPT ![g].pc = "iter", ![g].idx = 0,
                                  ![g].item_list = page_items(gen[g].object_type,
                                      gen[g].path, params["page"], response.size)]
                   /\ UNCHANGED running
    /\ UNCHANGED <<orig_class, cache, script, heap, last, input>>

\* yield item: hand the next record of the page to the consumer and suspend.
GenYield(g) ==
    /\ running = g
    /\ gen[g].pc = "iter"
    /\ ~page_exhausted(gen[g].item_list, gen[g].idx)
    /\ gen' = [gen EXCEPT ![g].pc = "suspended", ![g].idx = @ + 1,
                          ![g].yielded = Append(@, gen[g].item_list[gen[g].idx + 1])]
    /\ running' = Nobody
    /\ UNCHANGED <<orig_class, cache, script, heap, requests, last, input>>

\* params["page"] += 1 once the page's for loop is over; back to the request.
GenNextPage(g) ==
    /\ running = g
    /\ gen[g].pc = "iter"
    /\ page_exhausted(gen[g].item_list, gen[g].idx)
    /\ heap' = [heap EXCEPT ![gen[g].params] =
                    dict_set(@, "page", next_page(@["page"]))]
    /\ gen' = [gen EXCEPT ![g].pc = "request"]
    /\ UNCHANGED <<orig_class, cache, script, running, requests, last, input>>

----------------------------------------------------------------------------
(* Direct operations: one request each, handed to the Requester, whose    *)
(* answer (status, body) is the environment's choice.                     *)

Statuses == {StatusOk, 404}

\* A response body: not JSON at all, a JSON object, or a JSON array.
NotJson == [json |-> FALSE, array |-> FALSE, obj |-> EmptyDict, items |-> << >>]
Json(o) == [json |-> TRUE, array |-> FALSE, obj |-> o, items |-> << >>]
JsonArray(xs) == [json |-> TRUE, array |-> TRUE, obj |-> EmptyDict, items |-> xs]

Contact1 == [id |-> "11", is_main |-> TRUE]
Contact2 == [id |-> "12", is_main |-> FALSE]
LeadRef1 == [id |-> "21"]
LeadRef2 == [id |-> "22"]
LeadRef3 == [id |-> "23"]

LeadEmbedded(cs) == ("tags" :> << >> @@ "companies" :> << >> @@ "contacts" :> cs)
ContactEmbedded(ls) == ("tags" :> << >> @@ "companies" :> << >> @@ "leads" :> ls)

\* Bodies a single-object endpoint answers with: not JSON at all, an error
\* object carrying none of the schemas' fields, and records.
ResponseBodies ==
    { NotJson,
      Json("title" :> "Unauthorized"),
      Json("id" :> "1" @@ "created_by" :> "7"),
      Json("id" :> "2" @@ "_embedded" :> LeadEmbedded(<<Contact1>>)),
      Json("id" :> "2" @@ "_embedded" :> ContactEmbedded(<<LeadRef1>>)) }

ShortBodies == {NotJson, Json("title" :> "Unauthorized"), Json("id" :> "1")}

CollectionBodies ==
    { NotJson, Json("title" :> "Unauthorized"),
      Json("_embedded" :> << >>), Json("_embedded" :> <<"o1", "o2">>) }

ArrayBodies == {NotJson, Json("id" :> "1"), JsonArray(<< >>), JsonArray(<<"r1", "r2">>)}

Ids == {"1", "2"}

\* json: << >> when the call passes none, <<"object", d>> for a dict d,
\* <<"array", d>> for the one-element list [d].
direct_request(method, path, params, json) ==
    [method |-> method, path |-> path, params |-> params, json |-> json]

outcome(op, id, status, res) ==
    [op |-> op, id |-> id, status_code |-> status, raised |-> res.raised, res |-> res]

CanCall == running = Nobody /\ Len(requests[Direct]) < MaxCalls

\* self.request(...): the Requester receives one more request.
send(req) == requests' = [requests EXCEPT ![Direct] = Append(@, req)]

get_lead(lead_id, status, body) ==
    /\ CanCall
    /\ send(direct_request("GET", <<"/leads", lead_id>>,
                           ("with" :> "contacts,loss_reason"), << >>))
    /\ LET m == lead_model(cache, orig_class)
       IN  /\ cache' = cache_after(cache, "lead", m)
           /\ last' = outcome("get_lead", lead_id, status,
                   IF m.raised THEN [raised |-> TRUE, error |-> m.error]
                   ELSE LeadSchema_validate(m.type, body))
    /\ UNCHANGED <<orig_class, script, heap, gen, running, input>>

get_contact(contact_id, status, body) ==
    /\ CanCall
    /\ send(direct_request("GET", <<"/contacts", contact_id>>, ("with" :> "leads"), << >>))
    /\ LET m == contact_model(cache, orig_class)
       IN  /\ cache' = cache_after(cache, "contact", m)
           /\ last' = outcome("get_contact", contact_id, status,
                   IF m.raised THEN [raised |-> TRUE, error |-> m.error]
                   ELSE ContactScheme_validate(m.type, body))
    /\ UNCHANGED <<orig_class, script, heap, gen, running, input>>

\* model_dump(exclude_unset=True): the set, non-excluded fields by field name.
model_dump(inst, table) ==
    [f \in {x \in inst.fields_set : ~table[x].exclude} |-> inst.values[f]]

\* model_dump(exclude_unset=True, by_alias=True): the same under output names.
output_name(field) == IF field = "embedded" THEN "_embedded" ELSE field

model_dump_by_alias(inst, table) ==
    LET fs == {f \in inst.fields_set : ~table[f].exclude}
    IN  [k \in {output_name(f) : f \in fs} |->
            inst.values[CHOOSE f \in fs : output_name(f) = k]]

UpdateResponseSchema_validate(body) ==
    IF body.json /\ ~body.array /\ "id" \in DOMAIN body.obj
    THEN [raised |-> FALSE, type |-> "UpdateResponseSchema", id |-> body.obj["id"]]
    ELSE [raised |-> TRUE, error |-> "ValidationError"]

\* A read-only schema (Pipeline, Status, CustomField, User, LossReason): any
\* JSON object parses, every field being optional on read.
Schema_validate(T, body) ==
    IF body.json /\ ~body.array
    THEN [raised |-> FALSE, type |-> T, obj |-> body.obj]
    ELSE [raised |-> TRUE, error |-> "ValidationError"]

\* ListModelSchema[T].model_validate_json(content).embedded.objects
ListModelSchema_objects(T, body) ==
    IF body.json /\ ~body.array /\ "_embedded" \in DOMAIN body.obj
    THEN [raised |-> FALSE, type |-> T,
          objects |-> [i \in DOMAIN body.obj["_embedded"] |->
                          [type |-> T, item |-> body.obj["_embedded"][i]]]]
    ELSE [raised |-> TRUE, error |-> "ValidationError"]

\* TypeAdapter(List[ComplexCreateResponseSchema]).validate_json(content)[0]
ComplexCreateResponse_first(body) ==
    IF ~(body.json /\ body.array) THEN [raised |-> TRUE, error |-> "ValidationError"]
    ELSE IF body.items = << >> THEN [raised |-> TRUE, error |-> "IndexError"]
    ELSE [raised |-> FALSE, type |-> "ComplexCreateResponseSchema", item |-> body.items[1]]

\* create_* return response.content as it came.
raw_content(body) == [raised |-> FALSE, type |-> "bytes", content |-> body]

\* Records a caller builds and passes in: the keyword arguments given.
LeadArgs ==
    { LeadSchema_post_init(validate_fields(LeadSchemaFields, kw)) :
        kw \in { EmptyDict, ("id" :> Null), ("id" :> "1"),
                 ("id" :> "1" @@ "created_by" :> "7"), ("created_by" :> "7") } }

ContactArgs ==
    { ContactScheme_post_init(validate_fields(ContactSchemeFields, kw)) :
        kw \in { EmptyDict, ("id" :> Null), ("id" :> "2"),
                 ("id" :> "2" @@ "custom_fields_values" :> "cfA") } }

create_lead(lead, status, body) ==
    /\ CanCall
    /\ send(direct_request("POST", <<"/leads">>, EmptyDict,
                           <<"array", model_dump(lead, LeadSchemaFields)>>))
    /\ last' = outcome("create_lead", lead.values["id"], status, raw_content(body))
    /\ UNCHANGED <<orig_class, cache, script, heap, gen, running, input>>

create_contact(contact, status, body) ==
    /\ CanCall
    /\ send(direct_request("POST", <<"/contacts">>, EmptyDict,
                           <<"array", model_dump(contact, ContactSchemeFields)>>))
    /\ last' = outcome("create_contact", contact.values["id"], status, raw_content(body))
    /\ UNCHANGED <<orig_class, cache, script, heap, gen, running, input>>

create_complex_lead(lead, contact, status, body) ==
    /\ CanCall
    /\ LET lead_data == model_dump(lead, LeadSchemaFields)
           contact_data == model_dump(contact, ContactSchemeFields)
       IN  send(direct_request("POST", <<"/leads/complex">>, EmptyDict,
                <<"array", dict_set(lead_data, "_embedded", ("contacts" :> <<contact_data>>))>>))
    /\ last' = outcome("create_complex_lead", lead.values["id"], status,
                       ComplexCreateResponse_first(body))
    /\ UNCHANGED <<orig_class, cache, script, heap, gen, running, input>>

update_lead(lead, status, body) ==
    /\ CanCall
    /\ LET lead_id == lead.values["id"]
       IN  /\ send(direct_request("PATCH", <<"/leads", lead_id>>, EmptyDict,
                        <<"object", model_dump_by_alias(lead, LeadSchemaFields)>>))
           /\ last' = outcome("update_lead", lead_id, status,
                                UpdateResponseSchema_validate(body))
    /\ UNCHANGED <<orig_class, cache, script, heap, gen, running, input>>

update_contact(contact, status, body) ==
    /\ CanCall
    /\ LET contact_id == contact.values["id"]
       IN  /\ send(direct_request("PATCH", <<"/contacts", contact_id>>, EmptyDict,
                        <<"object", model_dump_by_alias(contact, ContactSchemeFields)>>))
           /\ last' = outcome("update_contact", contact_id, status,
                                UpdateResponseSchema_validate(body))
    /\ UNCHANGED <<orig_class, cache, script, heap, gen, running, input>>

\* GET path with no parameters, the body parsed as one object of a fixed schema.
fetch_one(op, path, T, id, status, body) ==
    /\ CanCall
    /\ send(direct_request("GET", path, EmptyDict, << >>))
    /\ last' = outcome(op, id, status, Schema_validate(T, body))
    /\ UNCHANGED <<orig_class, cache, script, heap, gen, running, input>>

\* GET path with no parameters, the body parsed as a collection in one go.
fetch_all(op, path, T, id, status, body) ==
    /\ CanCall
    /\ send(direct_request("GET", path, EmptyDict, << >>))
    /\ last' = outcome(op, id, status, ListModelSchema_objects(T, body))
    /\ UNCHANGED <<orig_class, cache, script, heap, gen, running, input>>

get_lead_links(lead_id, status, body) ==
    fetch_all("get_lead_links", <<"/leads", lead_id, "links">>, "LinkSchema",
              lead_id, status, body)

get_contact_links(contact_id, status, body) ==
    fetch_all("get_contact_links", <<"/contacts", contact_id, "links">>, "LinkSchema",
              contact_id, status, body)

get_pipeline(pipeline_id, status, body) ==
    fetch_one("get_pipeline", <<"/leads/pipelines", pipeline_id>>, "PipelineSchema",
              pipeline_id, status, body)

get_pipeline_list(status, body) ==
    fetch_all("get_pipeline_list", <<"/leads/pipelines">>, "PipelineSchema",
              Null, status, body)

get_pipeline_status(pipeline_id, status_id, status, body) ==
    fetch_one("get_pipeline_status",
              <<"/leads/pipelines", pipeline_id, "statuses", status_id>>, "StatusSchema",
              status_id, status, body)

get_pipeline_status_list(pipeline_id, status, body) ==
    fetch_all("get_pipeline_status_list", <<"/leads/pipelines", pipeline_id, "statuses">>,
              "StatusSchema", pipeline_id, status, body)

get_custom_field(field_id, status, body) ==
    fetch_one("get_custom_field", <<"/leads/custom_fields", field_id>>,
              "CustomFieldSchema", field_id, status, body)

get_user(user_id, status, body) ==
    fetch_one("get_user", <<"/users", user_id>>, "UserSchema", user_id, status, body)

get_loss_reason(loss_reason_id, status, body) ==
    fetch_one("get_loss_reason", <<"/leads/loss_reasons", loss_reason_id>>,
              "LeadLossReasonSchema", loss_reason_id, status, body)

get_loss_reason_list(status, body) ==
    fetch_all("get_loss_reason_list", <<"/leads/loss_reasons">>, "LeadLossReasonSchema",
              Null, status, body)

----------------------------------------------------------------------------
(* Pure functions applied to a drawn input *)

RECURSIVE SeqsUpTo(_, _)
SeqsUpTo(S, n) ==
    IF n = 0 THEN {<< >>}
    ELSE LET shorter == SeqsUpTo(S, n - 1)
         IN  shorter \cup {Append(q, x) : q \in shorter, x \in S}

FilterLists == SeqsUpTo(FilterObjects, MaxFilters)

apply_filters_to_params ==
    /\ last = NoCall
    /\ last' = [op |-> "_filters_to_params", value |-> filters_to_params(input)]
    /\ UNCHANGED <<orig_class, cache, script, heap, gen, running, requests, input>>

Opt(k, vs) == {EmptyDict} \cup {k :> v : v \in vs}

UserIds == {"7", "8"}
CfLists == {"cfA", "cfB"}

\* JSON objects over the keys the two schemas look at (and each other's keys,
\* which the other schema ignores).
RawObjects ==
    { a @@ b @@ c @@ d @@ e @@ f @@ em @@ g @@ h @@ j :
        a \in Opt("created_by", UserIds), b \in Opt("created_user_id", UserIds),
        c \in Opt("updated_by", {"7"}), d \in Opt("modified_user_id", {"8"}),
        e \in Opt("custom_fields", CfLists), f \in Opt("custom_fields_values", CfLists),
        em \in Opt("_embedded", { LeadEmbedded(<< >>), LeadEmbedded(<<Contact1>>),
                                  ContactEmbedded(<< >>), ContactEmbedded(<<LeadRef1>>) }),
        g \in Opt("contacts", {<<Contact2>>}),
        h \in Opt("leads", {<<LeadRef2>>}),
        j \in Opt("linked_leads_id", {<<LeadRef3>>}) }

validate_lead ==
    /\ last = NoCall
    /\ input.schema = "lead"
    /\ last' = outcome("LeadSchema.model_validate", Null, StatusOk,
                        LeadSchema_validate(LeadBase, Json(input.obj)))
    /\ UNCHANGED <<orig_class, cache, script, heap, gen, running, requests, input>>

validate_contact ==
    /\ last = NoCall
    /\ input.schema = "contact"
    /\ last' = outcome("ContactScheme.model_validate", Null, StatusOk,
                        ContactScheme_validate(ContactBase, Json(input.obj)))
    /\ UNCHANGED <<orig_class, cache, script, heap, gen, running, requests, input>>

----------------------------------------------------------------------------
(* Specifications *)

Idle ==
    /\ cache = [lead |-> Unset, contact |-> Unset]
    /\ heap = << >>
    /\ gen = [g \in Gens |-> NoGen]
    /\ running = Nobody
    /\ requests = [i \in Gens \cup {Direct} |-> << >>]
    /\ last = NoCall

Scripts(pages, sizes) == [1..pages -> {Fail} \cup {Page(k) : k \in 0..sizes}]

ListFilters == {<< >>, <<"by_name">>, <<"by_name", "by_name_and_id">>, <<"by_page">>}
LimitArgs == {Omitted, <<10>>}

\* One paginated sequence, any list operation, any server script.
Init ==
    /\ Idle
    /\ orig_class \in {NoTypeArgs, TypeArgs(<<"MyLead", "MyContact">>)}
    /\ script \in Scripts(MaxPage, MaxPageSize)
    /\ input = Unset

Next ==
    \/ \E fl \in ListFilters, l \in LimitArgs : get_lead_list(G1, fl, l)
    \/ \E fl \in ListFilters, l \in LimitArgs : get_contact_list(G1, fl, l)
    \/ get_users(G1)
    \/ get_custom_field_list(G1)
    \/ get_lead_tags(G1)
    \/ Pull(G1)
    \/ GenRequest(G1)
    \/ GenYield(G1)
    \/ GenNextPage(G1)

Spec == Init /\ [][Next]_vars

\* Two sequences on one client, pulled in any interleaving.
PairFilters == {<< >>, <<"by_name">>}

InitPair ==
    /\ Idle
    /\ orig_class = TypeArgs(<<"MyLead", "MyContact">>)
    /\ script \in Scripts(PairMaxPage, PairMaxPageSize)
    /\ input = Unset

NextPair ==
    \E g \in Gens :
        \/ \E fl \in PairFilters : get_lead_list(g, fl, Omitted)
        \/ \E fl \in PairFilters : get_contact_list(g, fl, Omitted)
        \/ get_users(g)
        \/ Pull(g)
        \/ GenRequest(g)
        \/ GenYield(g)
        \/ GenNextPage(g)

SpecPair == InitPair /\ [][NextPair]_vars

\* The single-object operations, and list creation, on every client configuration.
InitClient ==
    /\ Idle
    /\ orig_class \in ClientConfigs
    /\ script = << >>
    /\ input = Unset

NextClient ==
    \/ \E i \in Ids, st \in Statuses, b \in ResponseBodies : get_lead(i, st, b)
    \/ \E i \in Ids, st \in Statuses, b \in ResponseBodies : get_contact(i, st, b)
    \/ \E x \in LeadArgs, st \in Statuses, b \in ShortBodies : update_lead(x, st, b)
    \/ \E x \in ContactArgs, st \in Statuses, b \in ShortBodies : update_contact(x, st, b)
    \/ \E x \in LeadArgs, st \in Statuses, b \in ShortBodies : create_lead(x, st, b)
    \/ \E x \in ContactArgs, st \in Statuses, b \in ShortBodies : create_contact(x, st, b)
    \/ \E x \in LeadArgs, y \in ContactArgs, st \in Statuses, b \in ArrayBodies :
          create_complex_lead(x, y, st, b)
    \/ \E i \in Ids, st \in Statuses, b \in CollectionBodies : get_lead_links(i, st, b)
    \/ \E i \in Ids, st \in Statuses, b \in CollectionBodies : get_contact_links(i, st, b)
    \/ \E i \in Ids, st \in Statuses, b \in ShortBodies : get_pipeline(i, st, b)
    \/ \E st \in Statuses, b \in CollectionBodies : get_pipeline_list(st, b)
    \/ \E i \in Ids, j \in Ids, st \in Statuses, b \in ShortBodies :
          get_pipeline_status(i, j, st, b)
    \/ \E i \in Ids, st \in Statuses, b \in CollectionBodies :
          get_pipeline_status_list(i, st, b)
    \/ \E i \in Ids, st \in Statuses, b \in ShortBodies : get_custom_field(i, st, b)
    \/ \E i \in Ids, st \in Statuses, b \in ShortBodies : get_user(i, st, b)
    \/ \E i \in Ids, st \in Statuses, b \in ShortBodies : get_loss_reason(i, st, b)
    \/ \E st \in Statuses, b \in CollectionBodies : get_loss_reason_list(st, b)
    \/ \E fl \in PairFilters : get_lead_list(G1, fl, Omitted)
    \/ \E fl \in PairFilters : get_contact_list(G1, fl, Omitted)

SpecClient == InitClient /\ [][NextClient]_vars

InitFilters ==
    /\ Idle
    /\ orig_class = NoTypeArgs
    /\ script = << >>
    /\ input \in FilterLists

SpecFilters == InitFilters /\ [][apply_filters_to_params]_vars

InitRecords ==
    /\ Idle
    /\ orig_class = NoTypeArgs
    /\ script = << >>
    /\ input \in [schema : {"lead", "contact"}, obj : RawObjects]

NextRecords == validate_lead \/ validate_contact

SpecRecords == InitRecords /\ [][NextRecords]_vars

----------------------------------------------------------------------------
(* What the claims speak of, stated from the call's arguments and the      *)
(* server's script alone.                                                  *)

Created(g) == gen[g].pc # "none"

ProducedKeys(filters) == UNION {DOMAIN as_params(filters[i]) : i \in DOMAIN filters}

Producers(filters, key) == {i \in DOMAIN filters : key \in DOMAIN as_params(filters[i])}

LastProducer(filters, key) ==
    CHOOSE i \in Producers(filters, key) : \A j \in Producers(filters, key) : j <= i

LastWritten(filters, key) == as_params(filters[LastProducer(filters, key)])[key]

ExpectedPath(op) ==
    CASE op = "get_lead_list" -> <<"/leads">>
      [] op = "get_contact_list" -> <<"/contacts">>
      [] op = "get_users" -> <<"/users">>
      [] op = "get_custom_field_list" -> <<"/leads/custom_fields">>
      [] op = "get_lead_tags" -> <<"/leads/tags">>

ExpectedBase(gr) ==
    CASE gr.op = "get_lead_list" ->
            ("with" :> "contacts,loss_reason" @@ "page" :> 1
             @@ "limit" :> (IF gr.limit_arg = << >> THEN 50 ELSE gr.limit_arg[1]))
      [] gr.op = "get_contact_list" ->
            ("with" :> "leads" @@ "page" :> 1
             @@ "limit" :> (IF gr.limit_arg = << >> THEN 50 ELSE gr.limit_arg[1]))
      [] OTHER -> ("limit" :> 250 @@ "page" :> 1)

\* The initial parameter set of the sequence: the operation's own keys, then
\* whatever the filters contribute.
ExpectedParams(gr) ==
    LET base == ExpectedBase(gr)
    IN  [k \in DOMAIN base \cup ProducedKeys(gr.filters) |->
            IF Producers(gr.filters, k) # {} THEN LastWritten(gr.filters, k) ELSE base[k]]

StartPage(gr) == ExpectedParams(gr)["page"]

RECURSIVE SuccessRun(_)
\* The number N of consecutive successful pages the server holds from page p on.
SuccessRun(p) == IF Succeeds(p) THEN 1 + SuccessRun(p + 1) ELSE 0

RECURSIVE ExpectedRecords(_, _, _, _)
\* The records of pages p .. p+n-1 of a path, in page order.
ExpectedRecords(object_type, path, p, n) ==
    IF n = 0 THEN << >>
    ELSE page_items(object_type, path, p, script[p].size)
         \o ExpectedRecords(object_type, path, p + 1, n - 1)

IsPrefix(a, b) == Len(a) <= Len(b) /\ a = SubSeq(b, 1, Len(a))

RECURSIVE CumSize(_, _)
CumSize(reqs, j) == IF j = 0 THEN 0 ELSE reqs[j].size + CumSize(reqs, j - 1)

\* The pages received by g whose records have all been handed to the consumer.
PagesHanded(g) ==
    Cardinality({ j \in 1..Len(requests[g]) :
        /\ requests[g][j].status_code = 200
        /\ Len(gen[g].yielded) >= CumSize(requests[g], j) })

----------------------------------------------------------------------------
(* C1: a sequence pulled to its end over N successful pages followed by a  *)
(* non-success response has yielded exactly the records of those N pages,  *)
(* in page order, after N + 1 requests of which only the last failed; it   *)
(* never yields anything else on the way, never requests past the failure, *)
(* and an empty successful page does not end it.                           *)
C1_YieldsAllPagesThenStops ==
    \A g \in Gens : Created(g) =>
        LET gr == gen[g]
            N == SuccessRun(StartPage(gr))
            all == ExpectedRecords(gr.object_type, ExpectedPath(gr.op), StartPage(gr), N)
            reqs == requests[g]
        IN  /\ IsPrefix(gr.yielded, all)
            /\ Len(reqs) <= N + 1
            /\ \A k \in 1..Len(reqs) : (reqs[k].status_code = 200) <=> (k <= N)
            /\ gr.pc = "done" =>
                  /\ gr.yielded = all
                  /\ Len(reqs) = N + 1
                  /\ reqs[N + 1].status_code # 200

C1_Witness ==
    /\ gen[G1].pc = "done"
    /\ Len(requests[G1]) = 4
    /\ requests[G1][2].size = 0
    /\ Len(gen[G1].yielded) = 3

\* The state part of pull-based pagination.
PullBasedState ==
    \A g \in Gens : Created(g) =>
        /\ gen[g].pc = "start" => requests[g] = << >>
        /\ Len(requests[g]) <= PagesHanded(g) + 1
        /\ ( /\ Len(requests[g]) >= 1
             /\ 1 <= Len(gen[g].yielded)
             /\ Len(gen[g].yielded) < requests[g][1].size )
           => Len(requests[g]) = 1

(* C2: pagination is pull-based.  Creating the sequence issues no request; *)
(* at any moment the requests issued are at most one more than the pages   *)
(* fully handed over; a consumer that took M records, 1 <= M < k1, caused  *)
(* exactly one request; and a request is issued only while a pull of that  *)
(* sequence is pending.                                                    *)
C2_PullBased ==
    /\ []PullBasedState
    /\ [][\A g \in Gens : requests'[g] # requests[g] => running = g]_vars

C2_Witness ==
    /\ gen[G1].pc = "suspended"
    /\ Len(gen[G1].yielded) = 1
    /\ Len(requests[G1]) = 1
    /\ requests[G1][1].size = 2
    /\ Succeeds(StartPage(gen[G1]) + 1)

(* C10: the k-th GET of a sequence carries page = p0 + (k - 1) and is      *)
(* otherwise the same request every time: same path, same limit (50 by     *)
(* default for the lead and contact lists, 250 for the enumerations), same *)
(* other parameters; the page counter moves by one per completed page.     *)
C10_PageSequence ==
    \A g \in Gens : Created(g) =>
        LET gr == gen[g]
            p0 == StartPage(gr)
            n == Len(requests[g])
        IN  /\ \A k \in 1..n :
                  /\ requests[g][k].method = "GET"
                  /\ requests[g][k].path = ExpectedPath(gr.op)
                  /\ requests[g][k].params = dict_set(ExpectedParams(gr), "page", p0 + (k - 1))
            /\ gr.pc = "request" => heap[gr.params]["page"] = p0 + n
            /\ gr.pc \in {"iter", "suspended", "done"} =>
                  heap[gr.params]["page"] = p0 + (n - 1)

C10_Witness ==
    /\ gen[G1].op = "get_users"
    /\ Len(requests[G1]) = 3
    /\ requests[G1][3].params = ("limit" :> 250 @@ "page" :> 3)
    /\ requests[G1][3].status_code = 200

(* C3: two list calls on one client never share a parameter mapping, and   *)
(* under every interleaving of pulls each sequence requests the pages and  *)
(* yields the records it would alone.                                      *)
C3_IndependentSequences ==
    /\ \A g \in Gens, h \in Gens :
          (g # h /\ Created(g) /\ Created(h) /\ gen[g].params # NoneRef)
              => gen[g].params # gen[h].params
    /\ \A g \in Gens : Created(g) =>
          LET gr == gen[g]
              p0 == StartPage(gr)
              N == SuccessRun(p0)
              all == ExpectedRecords(gr.object_type, ExpectedPath(gr.op), p0, N)
          IN  /\ IsPrefix(gr.yielded, all)
              /\ Len(requests[g]) <= N + 1
              /\ \A k \in 1..Len(requests[g]) :
                    requests[g][k].params["page"] = p0 + (k - 1)
              /\ gr.pc = "done" => gr.yielded = all /\ Len(requests[g]) = N + 1

C3_Witness ==
    /\ gen[G1].op = "get_lead_list" /\ gen[G2].op = "get_lead_list"
    /\ gen[G1].filters = gen[G2].filters
    /\ gen[G1].pc = "suspended" /\ Len(requests[G1]) = 2
    /\ gen[G2].pc = "suspended" /\ Len(requests[G2]) = 1
    /\ heap[gen[G1].params]["page"] = 2
    /\ heap[gen[G2].params]["page"] = 1

(* C7: _filters_to_params returns the union of the filters' mappings with  *)
(* last-write-wins: exactly the keys some filter produces, each with the   *)
(* value of the last filter producing it; no filters, empty mapping.       *)
C7_LastWriteWins ==
    last.op = "_filters_to_params" =>
        /\ DOMAIN last.value = ProducedKeys(input)
        /\ \A k \in DOMAIN last.value : last.value[k] = LastWritten(input, k)
        /\ input = << >> => DOMAIN last.value = {}

C7_Witness ==
    /\ last.op = "_filters_to_params"
    /\ input = <<"by_name", "by_name_and_id">>
    /\ last.value = ("filter[name]" :> "2" @@ "filter[id]" :> "3")

EmbeddedList(obj, rel) ==
    IF "_embedded" \in DOMAIN obj /\ rel \in DOMAIN obj["_embedded"]
    THEN obj["_embedded"][rel] ELSE << >>

Parsed(op) == last.op = op /\ ~last.raised

OwnList(obj, names) ==
    IF \E i \in DOMAIN names : names[i] \in DOMAIN obj
    THEN obj[names[CHOOSE i \in DOMAIN names :
                 /\ names[i] \in DOMAIN obj
                 /\ \A j \in 1..(i - 1) : names[j] \notin DOMAIN obj]]
    ELSE << >>

MirrorOrOwn(obj, rel, names) ==
    IF EmbeddedList(obj, rel) # << >> THEN EmbeddedList(obj, rel) ELSE OwnList(obj, names)

(* C8 as stated: after a successful parse the convenience field is fixed   *)
(* by the embedded collection alone: the embedded list when it is present  *)
(* and non-empty, empty otherwise, whatever else the input carries.        *)
C8_EmbeddedAloneDecides ==
    /\ Parsed("LeadSchema.model_validate") =>
          last.res.inst.values["contacts"] = EmbeddedList(input.obj, "contacts")
    /\ Parsed("ContactScheme.model_validate") =>
          last.res.inst.values["leads"] = EmbeddedList(input.obj, "leads")

(* C8, amended: the embedded list when it is present and non-empty;        *)
(* otherwise the list the input itself gives for the field (contacts for a *)
(* Lead; leads, else linked_leads_id, for a Contact), empty if it gives    *)
(* none.                                                                   *)
C8_EmbeddedElseOwnInput ==
    /\ Parsed("LeadSchema.model_validate") =>
          last.res.inst.values["contacts"] = MirrorOrOwn(input.obj, "contacts", <<"contacts">>)
    /\ Parsed("ContactScheme.model_validate") =>
          last.res.inst.values["leads"] =
              MirrorOrOwn(input.obj, "leads", <<"leads", "linked_leads_id">>)

C8_Witness ==
    /\ Parsed("LeadSchema.model_validate")
    /\ "_embedded" \in DOMAIN input.obj
    /\ input.obj["_embedded"]["contacts"] = << >>
    /\ "contacts" \in DOMAIN input.obj
    /\ last.res.inst.values["contacts"] = <<Contact2>>

AliasedFields ==
    { [field |-> "created_by", current |-> "created_by", legacy |-> "created_user_id"],
      [field |-> "updated_by", current |-> "updated_by", legacy |-> "modified_user_id"],
      [field |-> "custom_fields_values", current |-> "custom_fields_values",
       legacy |-> "custom_fields"] }

(* C9: for each aliased field the current name is tried before the legacy  *)
(* one: the legacy name alone populates the field as the current name      *)
(* alone does, and with both present the current name's value is taken.    *)
C9_CurrentNameFirst ==
    (Parsed("LeadSchema.model_validate") \/ Parsed("ContactScheme.model_validate")) =>
        \A a \in AliasedFields :
            LET v == last.res.inst.values[a.field]
            IN  /\ a.current \in DOMAIN input.obj => v = input.obj[a.current]
                /\ (a.current \notin DOMAIN input.obj /\ a.legacy \in DOMAIN input.obj)
                      => v = input.obj[a.legacy]

(* C4: update_lead / update_contact given a record whose id is null fail   *)
(* with a PreconditionError and hand no request to the Requester.          *)
C4_NullIdUpdateSendsNothing ==
    (last.op \in {"update_lead", "update_contact"} /\ last.id = Null) =>
        /\ last.raised
        /\ last.res.error = "PreconditionError"
        /\ \A i \in DOMAIN requests[Direct] :
              ~(requests[Direct][i].method = "PATCH" /\ requests[Direct][i].path[2] = Null)

ConfiguredType(base) ==
    IF orig_class.present /\ \E i \in DOMAIN orig_class.args : IsSubclass(orig_class.args[i], base)
    THEN orig_class.args[CHOOSE i \in DOMAIN orig_class.args :
                             IsSubclass(orig_class.args[i], base)]
    ELSE base

SlotOf(op) == IF op \in {"get_lead", "get_lead_list"} THEN LeadBase ELSE ContactBase

(* C5: type resolution never fails and picks the configured subtype per    *)
(* slot, the base schema when the client was given no subtype.             *)
C5_ResolvesConfiguredTypes ==
    /\ last.op \in {"get_lead", "get_contact"} =>
          /\ last.raised => last.res.error # "AttributeError"
          /\ ~last.raised => last.res.type = ConfiguredType(SlotOf(last.op))
    /\ last.op \in {"get_lead_list", "get_contact_list"} => ~last.raised
    /\ \A g \in Gens :
          gen[g].op \in {"get_lead_list", "get_contact_list"} =>
              gen[g].object_type = ConfiguredType(SlotOf(gen[g].op))

(* C6: get_lead / get_contact answered with a non-success status surface   *)
(* an error and return no record, whatever the body.                       *)
C6_NonSuccessRaises ==
    (last.op \in {"get_lead", "get_contact"} /\ last.status_code # 200) => last.raised

====
